---- MODULE Spec2Model ----
(***************************************************************************)
(* Model of src/src/app/api/admin/filter-presets/route.ts: the GET (list)  *)
(* and POST (create) handlers of the filter-preset collection, over a      *)
(* filter_presets table.  Every `await` on the storage client is a point   *)
(* where another request may run, so POST is three steps (validate,        *)
(* findFirst, create) and GET is one (its only storage call is findMany).  *)
(* The store is assumed reachable: storage faults are not modelled.        *)
(***************************************************************************)
EXTENDS Integers, Sequences, FiniteSets, TLC

(***************************************************************************)
(* Bounds                                                                  *)
(***************************************************************************)
\* Rows the table may hold, counting those that in-flight creates will add.
MaxRows == 2

Slots == {1, 2}

(***************************************************************************)
(* JavaScript / JSON values, tagged by their `typeof`-like kind            *)
(***************************************************************************)
Undefined == [t |-> "undefined"]
JNull == [t |-> "null"]
JStr(s) == [t |-> "string", s |-> s]
JBool(b) == [t |-> "boolean", b |-> b]
JNum(n) == [t |-> "number", n |-> n]
JArr(items) == [t |-> "array", items |-> items]
\* props: a sequence of [k |-> key, v |-> value], keys distinct, in insertion order
JObj(props) == [t |-> "object", props |-> props]
\* a string holding serialized JSON, kept as its sequence of lexical tokens
JText(toks) == [t |-> "string", text |-> toks]

Prop(k, v) == [k |-> k, v |-> v]

\* JavaScript truthiness: undefined, null, "", false and 0 are falsy
Truthy(v) ==
    CASE v.t = "undefined" -> FALSE
      [] v.t = "null" -> FALSE
      [] v.t = "boolean" -> v.b
      [] v.t = "number" -> v.n # 0
      [] v.t = "string" -> IF "s" \in DOMAIN v THEN v.s # "" ELSE v.text # <<>>
      [] OTHER -> TRUE

\* a || b
OrElse(a, b) == IF Truthy(a) THEN a ELSE b

\* obj.key for a value that is not null or undefined
GetProp(obj, key) ==
    IF obj.t = "object" /\ \E i \in 1..Len(obj.props) : obj.props[i].k = key
    THEN LET i == CHOOSE j \in 1..Len(obj.props) : obj.props[j].k = key
         IN obj.props[i].v
    ELSE Undefined

\* `const { key = dflt } = body`: the default applies to undefined only
Destructure(body, key, dflt) ==
    LET v == GetProp(body, key) IN IF v.t = "undefined" THEN dflt ELSE v

(***************************************************************************)
(* JSON.stringify and JSON.parse over token sequences                      *)
(***************************************************************************)
Tok(x) == [tok |-> x]
TokStr(s) == [str |-> s]
IsTok(h, x) == "tok" \in DOMAIN h /\ h.tok = x

RECURSIVE StringifyValue(_)
RECURSIVE StringifyElements(_, _)
RECURSIVE StringifyMembers(_, _)

StringifyElements(items, i) ==
    IF i > Len(items) THEN <<>>
    ELSE (IF i > 1 THEN <<Tok(",")>> ELSE <<>>)
         \o StringifyValue(items[i]) \o StringifyElements(items, i + 1)

StringifyMembers(props, i) ==
    IF i > Len(props) THEN <<>>
    ELSE (IF i > 1 THEN <<Tok(",")>> ELSE <<>>)
         \o <<TokStr(props[i].k), Tok(":")>>
         \o StringifyValue(props[i].v) \o StringifyMembers(props, i + 1)

StringifyValue(v) ==
    CASE v.t = "null" -> <<Tok("null")>>
      [] v.t = "boolean" -> <<Tok(IF v.b THEN "true" ELSE "false")>>
      [] v.t = "number" -> <<[num |-> v.n]>>
      [] v.t = "string" -> <<TokStr(v.s)>>
      [] v.t = "array" ->
            <<Tok("[")>> \o StringifyElements(v.items, 1) \o <<Tok("]")>>
      [] v.t = "object" ->
            <<Tok("{")>> \o StringifyMembers(v.props, 1) \o <<Tok("}")>>

JSON_stringify(v) == JText(StringifyValue(v))

RECURSIVE ParseValue(_)
RECURSIVE ParseElements(_, _)
RECURSIVE ParseMembers(_, _)

\* each returns [val |-> the value read, rest |-> the tokens after it]
ParseElements(ts, acc) ==
    IF IsTok(Head(ts), "]") THEN [val |-> JArr(acc), rest |-> Tail(ts)]
    ELSE LET ts1 == IF IsTok(Head(ts), ",") THEN Tail(ts) ELSE ts
             r == ParseValue(ts1)
         IN ParseElements(r.rest, Append(acc, r.val))

ParseMembers(ts, acc) ==
    IF IsTok(Head(ts), "}") THEN [val |-> JObj(acc), rest |-> Tail(ts)]
    ELSE LET ts1 == IF IsTok(Head(ts), ",") THEN Tail(ts) ELSE ts
             key == Head(ts1).str
             \* ts1[2] is the colon
             r == ParseValue(Tail(Tail(ts1)))
         IN ParseMembers(r.rest, Append(acc, Prop(key, r.val)))

ParseValue(ts) ==
    LET h == Head(ts) IN
    IF "str" \in DOMAIN h THEN [val |-> JStr(h.str), rest |-> Tail(ts)]
    ELSE IF "num" \in DOMAIN h THEN [val |-> JNum(h.num), rest |-> Tail(ts)]
    ELSE CASE h.tok = "null" -> [val |-> JNull, rest |-> Tail(ts)]
           [] h.tok = "true" -> [val |-> JBool(TRUE), rest |-> Tail(ts)]
           [] h.tok = "false" -> [val |-> JBool(FALSE), rest |-> Tail(ts)]
           [] h.tok = "[" -> ParseElements(Tail(ts), <<>>)
           [] h.tok = "{" -> ParseMembers(Tail(ts), <<>>)

JSON_parse(s) == ParseValue(s.text).val

(***************************************************************************)
(* Request inputs                                                          *)
(***************************************************************************)
\* the caller context requireTenantContext() hands to the handler
Ctx(tenantId, userId) == [t |-> "object", tenantId |-> tenantId, userId |-> userId]

Contexts ==
    { Undefined,
      Ctx(JStr("t1"), Undefined),
      Ctx(Undefined, JStr("u1")),
      Ctx(JStr("t1"), JStr("")),
      Ctx(JStr("t1"), JStr("u1")),
      Ctx(JStr("t1"), JStr("u2")),
      Ctx(JStr("t2"), JStr("u1")) }

\* searchParams.get(...) of the three parameters: a string, or null when absent
Query(entityType, isPublic, includeShared) ==
    [entityType |-> entityType, isPublic |-> isPublic, includeShared |-> includeShared]

Queries ==
    { Query(e, p, s) : e \in {JNull, JStr("clients")},
                       p \in {JNull, JStr("true")},
                       s \in {JNull, JStr("false")} }
    \cup { Query(JStr(""), JStr("false"), JStr("true")),
           Query(JStr("users"), JStr("true"), JStr("false")) }

cfgA ==
    JObj(<<Prop("logic", JStr("OR")),
           Prop("filters", JArr(<<JObj(<<Prop("field", JStr("role")),
                                         Prop("value", JStr("ADMIN"))>>)>>))>>)
cfgB == JObj(<<Prop("search", JStr("bob")), Prop("active", JBool(TRUE))>>)
cfgC == JObj(<<Prop("logic", JStr("")), Prop("filters", JArr(<<>>))>>)

\* what `await request.json()` may yield
Bodies ==
    { JNull,
      JObj(<<Prop("filterConfig", cfgA)>>),
      JObj(<<Prop("name", JStr("")), Prop("filterConfig", cfgA)>>),
      JObj(<<Prop("name", JStr("X"))>>),
      JObj(<<Prop("name", JStr("X")), Prop("filterConfig", JNull)>>),
      JObj(<<Prop("name", JStr("X")), Prop("description", JStr("d")),
             Prop("filterConfig", cfgA), Prop("isPublic", JBool(TRUE)),
             Prop("icon", JStr("star"))>>),
      JObj(<<Prop("name", JStr("X")), Prop("entityType", JStr("clients")),
             Prop("filterConfig", cfgB)>>),
      JObj(<<Prop("name", JStr("Y")), Prop("description", JStr("")),
             Prop("filterConfig", cfgC), Prop("isPublic", JBool(FALSE))>>) }

EmptyQuery == Query(JNull, JNull, JNull)
GetRequest(ctx, query) == [kind |-> "GET", ctx |-> ctx, query |-> query, body |-> Undefined]
PostRequest(ctx, body) == [kind |-> "POST", ctx |-> ctx, query |-> EmptyQuery, body |-> body]
NoRequest == [kind |-> "none", ctx |-> Undefined, query |-> EmptyQuery, body |-> Undefined]

(***************************************************************************)
(* State                                                                   *)
(***************************************************************************)
VARIABLES
    store,      \* the filter_presets table: its rows, in insertion order
    submitted,  \* history: submitted[i] is the filterConfig given for store[i]
    pc,         \* per slot: "idle", "findFirst" or "create" (the await a POST is at)
    req,        \* per slot: the POST request being handled
    resp        \* the response a handler has just returned, until it is delivered

vars == <<store, submitted, pc, req, resp>>

\* the response of the request `r`; ops lists the storage calls the handler made
Response(r, status, data, ops) == [req |-> r, status |-> status, data |-> data, ops |-> ops]
NoResponse == Response(NoRequest, 0, <<>>, <<>>)

\* respond.* of @/lib/api-response
respond_ok(r, data, ops) == Response(r, 200, data, ops)
respond_created(r, data, ops) == Response(r, 201, data, ops)
respond_badRequest(r, ops) == Response(r, 400, <<>>, ops)
respond_unauthorized(r, ops) == Response(r, 401, <<>>, ops)
respond_conflict(r, ops) == Response(r, 409, <<>>, ops)
respond_serverError(r, ops) == Response(r, 500, <<>>, ops)

\* a row some earlier create left behind, since marked default and used elsewhere
SeedRow ==
    [id |-> 1, tenantId |-> JStr("t1"), name |-> JStr("Z"), description |-> JNull,
     entityType |-> JStr("users"), filterConfig |-> JSON_stringify(cfgB),
     filterLogic |-> JStr("AND"), isPublic |-> JBool(TRUE), isDefault |-> JBool(TRUE),
     icon |-> JNull, color |-> JNull, usageCount |-> 2, lastUsedAt |-> JNum(0),
     createdBy |-> JStr("u2"), createdAt |-> 0, updatedAt |-> 0]

Init ==
    /\ store \in {<<>>, <<SeedRow>>}
    /\ submitted = [i \in 1..Len(store) |-> cfgB]
    /\ pc = [p \in Slots |-> "idle"]
    /\ req = [p \in Slots |-> NoRequest]
    /\ resp = NoResponse

(***************************************************************************)
(* Shared by both handlers                                                 *)
(***************************************************************************)
\* ctx?.field
CtxGet(ctx, field) ==
    IF ctx.t \in {"undefined", "null"} THEN Undefined
    ELSE IF field = "userId" THEN ctx.userId ELSE ctx.tenantId

\* mutant: the check forgets the tenant id
Authorized_UserOnly(ctx) == Truthy(CtxGet(ctx, "userId"))

\* the negation of `!ctx?.userId || !ctx?.tenantId`
Authorized(ctx) == Truthy(CtxGet(ctx, "userId")) /\ Truthy(CtxGet(ctx, "tenantId"))

(***************************************************************************)
(* GET: list                                                               *)
(***************************************************************************)
entityTypeParam(query) == OrElse(query.entityType, JStr("users"))
isPublicParam(query) == query.isPublic = JStr("true")
includeSharedParam(query) == query.includeShared # JStr("false")

\* mutant: the tenant filter is left out of the whereClause
whereClause_NoTenant(ctx, query, row) ==
    /\ row.entityType = entityTypeParam(query)
    /\ IF isPublicParam(query) THEN row.isPublic = JBool(TRUE)
       ELSE IF includeSharedParam(query)
            THEN row.isPublic = JBool(TRUE) \/ row.createdBy = ctx.userId
            ELSE row.createdBy = ctx.userId

\* mutant: includeShared is tested before isPublic
whereClause_SharedFirst(ctx, query, row) ==
    /\ row.tenantId = ctx.tenantId
    /\ row.entityType = entityTypeParam(query)
    /\ IF includeSharedParam(query)
       THEN row.isPublic = JBool(TRUE) \/ row.createdBy = ctx.userId
       ELSE IF isPublicParam(query) THEN row.isPublic = JBool(TRUE)
            ELSE row.createdBy = ctx.userId

\* whether `row` satisfies the whereClause built for (ctx, query)
whereClause(ctx, query, row) ==
    /\ row.tenantId = ctx.tenantId
    /\ row.entityType = entityTypeParam(query)
    /\ IF isPublicParam(query) THEN row.isPublic = JBool(TRUE)
       ELSE IF includeSharedParam(query)
            THEN row.isPublic = JBool(TRUE) \/ row.createdBy = ctx.userId
            ELSE row.createdBy = ctx.userId

\* orderBy: isDefault desc, usageCount desc, createdAt desc
Precedes(a, b) ==
    \/ a.isDefault.b /\ ~b.isDefault.b
    \/ a.isDefault = b.isDefault /\ a.usageCount > b.usageCount
    \/ a.isDefault = b.isDefault /\ a.usageCount = b.usageCount
       /\ a.createdAt > b.createdAt

RECURSIVE InsertOrdered(_, _)
InsertOrdered(sorted, row) ==
    IF sorted = <<>> THEN <<row>>
    ELSE IF Precedes(row, Head(sorted)) THEN <<row>> \o sorted
    ELSE <<Head(sorted)>> \o InsertOrdered(Tail(sorted), row)

RECURSIVE orderBy(_)
orderBy(rows) ==
    IF rows = <<>> THEN <<>>
    ELSE InsertOrdered(orderBy(Tail(rows)), Head(rows))

\* the `creator` relation read back with a row (name and image of the user
\* table are not modelled)
creator(row) == [id |-> row.createdBy]

\* the `select` of findMany
Select(row) ==
    [id |-> row.id, name |-> row.name, description |-> row.description,
     entityType |-> row.entityType, filterConfig |-> row.filterConfig,
     filterLogic |-> row.filterLogic, isPublic |-> row.isPublic,
     isDefault |-> row.isDefault, icon |-> row.icon, color |-> row.color,
     usageCount |-> row.usageCount, lastUsedAt |-> row.lastUsedAt,
     createdAt |-> row.createdAt, updatedAt |-> row.updatedAt,
     creator |-> creator(row)]

findMany(ctx, query, table) ==
    LET hits == SelectSeq(table, LAMBDA row : whereClause(ctx, query, row))
        sorted == orderBy(hits)
    IN [i \in 1..Len(sorted) |-> Select(sorted[i])]

\* mutant: the stored text is returned as it is
ParseConfig_Raw(p) == p

\* presets.map(p => ({...p, filterConfig: typeof ... === 'string' ? JSON.parse : ...}))
ParseConfig(p) ==
    [p EXCEPT !.filterConfig =
        IF p.filterConfig.t = "string" THEN JSON_parse(p.filterConfig)
        ELSE p.filterConfig]

GET(ctx, query) ==
    /\ resp = NoResponse
    /\ LET r == GetRequest(ctx, query) IN
       IF ~Authorized(ctx)
       THEN resp' = respond_unauthorized(r, <<>>)
       ELSE LET presets == findMany(ctx, query, store)
            IN resp' = respond_ok(r, [i \in 1..Len(presets) |-> ParseConfig(presets[i])],
                                  <<"findMany">>)
    /\ UNCHANGED <<store, submitted, pc, req>>

(***************************************************************************)
(* POST: create                                                            *)
(***************************************************************************)
InFlight == {p \in Slots : pc[p] # "idle"}

\* up to the first storage call: authorization, body parsing, validation
POST_Begin(p, ctx, body) ==
    /\ resp = NoResponse
    /\ pc[p] = "idle"
    /\ LET r == PostRequest(ctx, body) IN
       IF ~Authorized(ctx)
       THEN /\ resp' = respond_unauthorized(r, <<>>)
            /\ UNCHANGED <<pc, req>>
       ELSE IF body.t \in {"null", "undefined"}
       THEN \* destructuring null throws a TypeError, caught by the handler
            /\ resp' = respond_serverError(r, <<>>)
            /\ UNCHANGED <<pc, req>>
       ELSE IF ~Truthy(GetProp(body, "name")) \/ ~Truthy(GetProp(body, "filterConfig"))
       THEN /\ resp' = respond_badRequest(r, <<>>)
            /\ UNCHANGED <<pc, req>>
       ELSE /\ Len(store) + Cardinality(InFlight) < MaxRows
            /\ pc' = [pc EXCEPT ![p] = "findFirst"]
            /\ req' = [req EXCEPT ![p] = r]
            /\ UNCHANGED resp
    /\ UNCHANGED <<store, submitted>>

\* mutant: createdBy is compared with the tenant id
existingWhere_WrongOwner(ctx, name, row) ==
    /\ row.tenantId = ctx.tenantId
    /\ row.name = name
    /\ row.createdBy = ctx.tenantId

\* mutant: the owner is left out, making names unique per tenant
existingWhere_NoOwner(ctx, name, row) ==
    /\ row.tenantId = ctx.tenantId
    /\ row.name = name

\* the `where` of findFirst
existingWhere(ctx, name, row) ==
    /\ row.tenantId = ctx.tenantId
    /\ row.name = name
    /\ row.createdBy = ctx.userId

findFirst(ctx, name, table) ==
    \E i \in 1..Len(table) : existingWhere(ctx, name, table[i])

POST_FindFirst(p) ==
    /\ resp = NoResponse
    /\ pc[p] = "findFirst"
    /\ LET r == req[p]
           existing == findFirst(r.ctx, GetProp(r.body, "name"), store)
       IN IF existing
          THEN /\ resp' = respond_conflict(r, <<"findFirst">>)
               /\ pc' = [pc EXCEPT ![p] = "idle"]
               /\ req' = [req EXCEPT ![p] = NoRequest]
          ELSE /\ pc' = [pc EXCEPT ![p] = "create"]
               /\ UNCHANGED <<req, resp>>
    /\ UNCHANGED <<store, submitted>>

\* mutant: the logic of the configuration is ignored
filterLogic_AlwaysAnd(filterConfig) == JStr("AND")

\* filterConfig.logic || 'AND'
filterLogic(filterConfig) == OrElse(GetProp(filterConfig, "logic"), JStr("AND"))

\* what the table itself fills in for a new row
ColumnDefaults(table) ==
    [id |-> Len(table) + 1, isDefault |-> JBool(FALSE), usageCount |-> 0,
     lastUsedAt |-> JNull, createdAt |-> Len(table) + 1, updatedAt |-> Len(table) + 1]

\* the `data` of prisma.filter_presets.create, completed by the table
createData(ctx, body, table) ==
    LET d == ColumnDefaults(table) IN
    [id |-> d.id,
     tenantId |-> ctx.tenantId,
     name |-> GetProp(body, "name"),
     description |-> OrElse(GetProp(body, "description"), JNull),
     entityType |-> Destructure(body, "entityType", JStr("users")),
     filterConfig |-> JSON_stringify(GetProp(body, "filterConfig")),
     filterLogic |-> filterLogic(GetProp(body, "filterConfig")),
     isPublic |-> Destructure(body, "isPublic", JBool(FALSE)),
     isDefault |-> d.isDefault,
     icon |-> OrElse(GetProp(body, "icon"), JNull),
     color |-> OrElse(GetProp(body, "color"), JNull),
     usageCount |-> d.usageCount,
     lastUsedAt |-> d.lastUsedAt,
     createdBy |-> ctx.userId,
     createdAt |-> d.createdAt,
     updatedAt |-> d.updatedAt]

\* mutant: an upsert on (tenantId, name): a row of that name is overwritten
create_Upsert(table, row) ==
    IF \E i \in 1..Len(table) :
          table[i].tenantId = row.tenantId /\ table[i].name = row.name
    THEN [i \in 1..Len(table) |->
            IF table[i].tenantId = row.tenantId /\ table[i].name = row.name
            THEN [row EXCEPT !.id = i] ELSE table[i]]
    ELSE Append(table, row)

\* the table after prisma.filter_presets.create inserted `row`
create(table, row) == Append(table, row)

\* { ...preset, filterConfig: JSON.parse(preset.filterConfig) }, with `include: creator`
Created(preset) ==
    [id |-> preset.id, tenantId |-> preset.tenantId, name |-> preset.name,
     description |-> preset.description, entityType |-> preset.entityType,
     filterConfig |-> JSON_parse(preset.filterConfig),
     filterLogic |-> preset.filterLogic, isPublic |-> preset.isPublic,
     isDefault |-> preset.isDefault, icon |-> preset.icon, color |-> preset.color,
     usageCount |-> preset.usageCount, lastUsedAt |-> preset.lastUsedAt,
     createdBy |-> preset.createdBy, createdAt |-> preset.createdAt,
     updatedAt |-> preset.updatedAt, creator |-> creator(preset)]

POST_Create(p) ==
    /\ resp = NoResponse
    /\ pc[p] = "create"
    /\ LET r == req[p]
           preset == createData(r.ctx, r.body, store)
       IN /\ store' = create(store, preset)
          /\ submitted' = Append(submitted, GetProp(r.body, "filterConfig"))
          /\ resp' = respond_created(r, <<Created(preset)>>, <<"findFirst", "create">>)
    /\ pc' = [pc EXCEPT ![p] = "idle"]
    /\ req' = [req EXCEPT ![p] = NoRequest]

\* the wrapper hands the returned response to the caller
Deliver ==
    /\ resp # NoResponse
    /\ resp' = NoResponse
    /\ UNCHANGED <<store, submitted, pc, req>>

Next ==
    \/ \E ctx \in Contexts, query \in Queries : GET(ctx, query)
    \/ \E p \in Slots, ctx \in Contexts, body \in Bodies : POST_Begin(p, ctx, body)
    \/ \E p \in Slots : POST_FindFirst(p)
    \/ \E p \in Slots : POST_Create(p)
    \/ Deliver

Spec == Init /\ [][Next]_vars

(***************************************************************************)
(* Requests handled strictly one after another: a request starts only when *)
(* no other is in flight.                                                  *)
(***************************************************************************)
Quiet == InFlight = {}

SeqGET(ctx, query) == Quiet /\ GET(ctx, query)
SeqPOST_Begin(p, ctx, body) == Quiet /\ POST_Begin(p, ctx, body)

SeqNext ==
    \/ \E ctx \in Contexts, query \in Queries : SeqGET(ctx, query)
    \/ \E p \in Slots, ctx \in Contexts, body \in Bodies : SeqPOST_Begin(p, ctx, body)
    \/ \E p \in Slots : POST_FindFirst(p)
    \/ \E p \in Slots : POST_Create(p)
    \/ Deliver

SeqSpec == Init /\ [][SeqNext]_vars

(***************************************************************************)
(* Vocabulary of the properties                                            *)
(***************************************************************************)
Rows == {store[i] : i \in 1..Len(store)}
RowsAfter == {store'[i] : i \in 1..Len(store')}

\* a response to a list / create request has been returned
Listed == resp.req.kind = "GET" /\ resp.status = 200
CreatedNow == resp.req.kind = "POST" /\ resp.status = 201

\* the stored row behind the i-th preset of a list response
Listing(i) == store[resp.data[i].id]

\* the context names no tenant or no user
LacksIdentity(ctx) ==
    \/ ctx.t # "object"
    \/ ctx.tenantId \in {Undefined, JNull, JStr("")}
    \/ ctx.userId \in {Undefined, JNull, JStr("")}

HasProp(obj, key) ==
    obj.t = "object" /\ \E i \in 1..Len(obj.props) : obj.props[i].k = key

\* the rows owned by (tenantId, userId) and called `name`
Owned(table, tenantId, userId, name) ==
    {i \in 1..Len(table) : /\ table[i].tenantId = tenantId
                           /\ table[i].createdBy = userId
                           /\ table[i].name = name}

\* slot p leaves step `at` in this transition
Leaves(p, at) == pc[p] = at /\ pc'[p] # at

(***************************************************************************)
(* C1: no two persisted presets share (tenantId, createdBy, name), under   *)
(* any interleaving of create requests.                                    *)
(***************************************************************************)
C1_UniqueNamePerOwner ==
    \A i, j \in 1..Len(store) :
        i # j => <<store[i].tenantId, store[i].createdBy, store[i].name>>
                 # <<store[j].tenantId, store[j].createdBy, store[j].name>>

(***************************************************************************)
(* C2: every preset of a list response is stored under the caller's tenant *)
(* and under the requested entity type ("users" when none is requested),   *)
(* and the row a create persists carries its caller's tenant and user.     *)
(***************************************************************************)
C2_TenantScoped ==
    /\ Listed =>
         \A i \in 1..Len(resp.data) :
            /\ Listing(i).tenantId = resp.req.ctx.tenantId
            /\ Listing(i).entityType =
                  (IF resp.req.query.entityType \in {JNull, JStr("")}
                   THEN JStr("users") ELSE resp.req.query.entityType)
    /\ CreatedNow =>
         /\ store[Len(store)].tenantId = resp.req.ctx.tenantId
         /\ store[Len(store)].createdBy = resp.req.ctx.userId
         /\ resp.data[1].id = store[Len(store)].id

\* a non-empty list is returned while another tenant holds a row of that type
C2_Witness ==
    /\ Listed
    /\ Len(resp.data) > 0
    /\ \E row \in Rows : /\ row.tenantId # resp.req.ctx.tenantId
                         /\ row.entityType = Listing(1).entityType

(***************************************************************************)
(* C3: a GET or POST whose context lacks the tenant id or the user id is   *)
(* answered 401 without any storage call, whatever its query or body, and  *)
(* never goes on to the storage steps.                                     *)
(***************************************************************************)
C3_UnauthorizedTouchesNothing ==
    /\ (resp # NoResponse /\ LacksIdentity(resp.req.ctx)) =>
          resp.status = 401 /\ resp.ops = <<>>
    /\ \A p \in Slots : pc[p] # "idle" => ~LacksIdentity(req[p].ctx)

\* a create with a complete body and a user id but no tenant id is turned away
C3_Witness ==
    /\ resp.status = 401
    /\ resp.req.kind = "POST"
    /\ resp.req.ctx = Ctx(Undefined, JStr("u1"))
    /\ Truthy(GetProp(resp.req.body, "name"))
    /\ Truthy(GetProp(resp.req.body, "filterConfig"))
    /\ store # <<>>

(***************************************************************************)
(* C4: visibility of a list by user U: with isPublic=true only public      *)
(* presets; else unless includeShared="false" public or U's own; else only *)
(* U's own.  Another user's non-public preset is never returned.           *)
(***************************************************************************)
C4_Visibility ==
    Listed =>
      \A i \in 1..Len(resp.data) :
         LET row == Listing(i)
             U == resp.req.ctx.userId
         IN /\ IF resp.req.query.isPublic = JStr("true")
               THEN row.isPublic = JBool(TRUE)
               ELSE IF resp.req.query.includeShared # JStr("false")
                    THEN row.isPublic = JBool(TRUE) \/ row.createdBy = U
                    ELSE row.createdBy = U
            /\ ~(row.isPublic # JBool(TRUE) /\ row.createdBy # U)

\* a default list returns something while a private preset of another user,
\* same tenant and entity type, is stored
C4_Witness ==
    /\ Listed
    /\ Len(resp.data) > 0
    /\ resp.req.query.isPublic = JNull
    /\ resp.req.query.includeShared = JNull
    /\ \E row \in Rows : /\ row.tenantId = resp.req.ctx.tenantId
                         /\ row.entityType = Listing(1).entityType
                         /\ row.isPublic # JBool(TRUE)
                         /\ row.createdBy # resp.req.ctx.userId

(***************************************************************************)
(* C5: with requests handled one after another, a valid create of a name   *)
(* its caller already holds in the tenant is answered 409, makes no        *)
(* insert, and leaves exactly one row of that (tenant, user, name).        *)
(***************************************************************************)
C5_DuplicateIsConflict ==
    [][\A p \in Slots :
         LET c == req[p].ctx
             n == GetProp(req[p].body, "name")
         IN (Leaves(p, "findFirst") /\ Owned(store, c.tenantId, c.userId, n) # {}) =>
               /\ resp'.status = 409
               /\ resp'.req = req[p]
               /\ pc'[p] = "idle"
               /\ store' = store
               /\ Cardinality(Owned(store', c.tenantId, c.userId, n)) = 1]_vars

\* the second create of X by the user who created the stored X (under another
\* entity type) has been answered 409
C5_Witness ==
    /\ resp.status = 409
    /\ \E i \in 1..Len(store) :
          /\ store[i].tenantId = resp.req.ctx.tenantId
          /\ store[i].createdBy = resp.req.ctx.userId
          /\ store[i].name = GetProp(resp.req.body, "name")
          /\ store[i].entityType # Destructure(resp.req.body, "entityType", JStr("users"))

(***************************************************************************)
(* C6: uniqueness is per owner: a valid create whose caller holds no       *)
(* preset of that name in the tenant is never answered 409, whoever else   *)
(* holds the name; it goes on to insert and is answered 201, the row added *)
(* beside the others.                                                      *)
(***************************************************************************)
C6_PerOwnerNotPerTenant ==
    [][/\ \A p \in Slots :
            LET c == req[p].ctx
                n == GetProp(req[p].body, "name")
            IN /\ (Leaves(p, "findFirst") /\ Owned(store, c.tenantId, c.userId, n) = {})
                    => pc'[p] = "create" /\ resp' = NoResponse
               /\ Leaves(p, "create") =>
                    /\ resp'.status = 201
                    /\ Rows \subseteq RowsAfter
                    /\ Owned(store', c.tenantId, c.userId, n) # {}
       /\ (resp'.status = 409 /\ resp = NoResponse) =>
             Owned(store, resp'.req.ctx.tenantId, resp'.req.ctx.userId,
                   GetProp(resp'.req.body, "name")) # {}]_vars

\* U2's create of X has just been answered 201 while U1's X is stored in the tenant
C6_Witness ==
    /\ CreatedNow
    /\ \E i \in 1..Len(store) :
          /\ i < Len(store)
          /\ store[i].tenantId = store[Len(store)].tenantId
          /\ store[i].name = store[Len(store)].name
          /\ store[i].createdBy # store[Len(store)].createdBy

(***************************************************************************)
(* C7: a create by an authorized caller whose payload has no filterConfig  *)
(* or no non-empty name is answered 400 (never 500) with no storage call.  *)
(***************************************************************************)
C7_MissingFieldsAreBadRequest ==
    (/\ resp.req.kind = "POST"
     /\ ~LacksIdentity(resp.req.ctx)
     /\ \/ GetProp(resp.req.body, "name") \in {Undefined, JNull, JStr("")}
        \/ GetProp(resp.req.body, "filterConfig") \in {Undefined, JNull})
    => resp.status = 400 /\ resp.ops = <<>>

(***************************************************************************)
(* C8: the filterConfig of a create response equals the submitted value,   *)
(* and so does the filterConfig of that preset in every list response.     *)
(***************************************************************************)
C8_FilterConfigRoundTrip ==
    /\ CreatedNow => resp.data[1].filterConfig = GetProp(resp.req.body, "filterConfig")
    /\ Listed => \A i \in 1..Len(resp.data) :
                    resp.data[i].filterConfig = submitted[resp.data[i].id]

\* a list returns a preset that was created with the nested configuration
C8_Witness ==
    /\ Listed
    /\ \E i \in 1..Len(resp.data) :
          /\ submitted[resp.data[i].id] = cfgA
          /\ resp.data[i].filterConfig = cfgA

(***************************************************************************)
(* C9: a create answered 201 adds exactly one row and leaves every earlier *)
(* row as it was; a list, and a create answered 400, 401 or 409, leave the *)
(* store unchanged; nothing else changes the store.                        *)
(***************************************************************************)
C9_Frame ==
    [][/\ store' # store =>
            /\ resp'.status = 201
            /\ Len(store') = Len(store) + 1
            /\ SubSeq(store', 1, Len(store)) = store
       /\ (resp = NoResponse /\ resp'.status = 201) =>
            /\ Len(store') = Len(store) + 1
            /\ SubSeq(store', 1, Len(store)) = store
       /\ (resp = NoResponse /\ resp'.status \in {200, 400, 401, 409}) =>
            store' = store]_vars

\* a create has been answered 201 beside the default, used row that was there before
C9_Witness ==
    /\ CreatedNow
    /\ Len(store) > 1
    /\ store[1].isDefault = JBool(TRUE)
    /\ store[1].usageCount > 0
    /\ store[1].tenantId = store[Len(store)].tenantId

(***************************************************************************)
(* C10, as stated: the stored filterLogic is filterConfig.logic whenever   *)
(* filterConfig carries a logic field, and "AND" when it carries none.     *)
(***************************************************************************)
C10_LogicWhenPresent ==
    CreatedNow =>
       LET cfg == GetProp(resp.req.body, "filterConfig")
       IN store[resp.data[1].id].filterLogic =
             (IF HasProp(cfg, "logic") THEN GetProp(cfg, "logic") ELSE JStr("AND"))

(***************************************************************************)
(* C10, amended: the stored filterLogic is filterConfig.logic when that    *)
(* field is present and truthy (a non-empty string), and "AND" when the    *)
(* field is absent or falsy (empty string, null).                          *)
(***************************************************************************)
C10_LogicWhenTruthy ==
    CreatedNow =>
       LET cfg == GetProp(resp.req.body, "filterConfig")
           given == IF HasProp(cfg, "logic") THEN GetProp(cfg, "logic") ELSE Undefined
       IN store[resp.data[1].id].filterLogic =
             (IF given \in {Undefined, JNull, JStr("")} THEN JStr("AND") ELSE given)

\* a create that carried logic "" has been stored with filterLogic "AND"
C10_Witness ==
    /\ CreatedNow
    /\ GetProp(GetProp(resp.req.body, "filterConfig"), "logic") = JStr("")
    /\ store[resp.data[1].id].filterLogic = JStr("AND")

====
